---- MODULE Spec2Model ----
(***************************************************************************)
(* A model of the risk-dash repository: the Cache Store                    *)
(* (cache_manager.py), the Broker Session and the market-index session     *)
(* with their background threads (api_manager.py), the start-up of the     *)
(* dashboard script (dashboard.py) and the Portfolio Model with its        *)
(* reconciliation (portfolio.py).                                          *)
(*                                                                         *)
(* Python dictionaries are TLA+ functions; a dictionary is "falsy" when    *)
(* its domain is empty.  A call that returns or raises leaves its result   *)
(* in cache_ret / app_ret, so that a state always shows the result of the  *)
(* operation that produced it.                                             *)
(***************************************************************************)
EXTENDS Integers, Sequences, FiniteSets, TLC

\* ------------------------------------------------------------------ bounds
NumTickers == 2
NumCloses == 2
NumDates == 2
MaxReq == 2
NumKeys == 1
NumSeries == 1
NumValues == 1

TickerNames == <<"AAPL", "MSFT", "TSLA", "NVDA">>
Tickers == {TickerNames[i] : i \in 1..NumTickers}
DateNames == <<"2024-01-02", "2024-01-03", "2024-01-04", "2024-01-05">>
Dates == {DateNames[i] : i \in 1..NumDates}
Closes == 100..(99 + NumCloses)

\* ------------------------------------------------------- python values
EmptyDict == [x \in {} |-> 0]
Truthy(d) == DOMAIN d # {}
Put(d, k, v) == [x \in (DOMAIN d) \cup {k} |-> IF x = k THEN v ELSE d[x]]
None == [none |-> TRUE, val |-> EmptyDict]
Some(v) == [none |-> FALSE, val |-> v]

\* The keys and values the cache is exercised with.  A value is a
\* historical series as the callers pass it (date -> close), possibly empty.
CacheKeys == {TickerNames[i] : i \in 1..NumKeys}
SeriesValues ==
    {EmptyDict} \cup {[d \in {DateNames[1]} |-> 99 + i] : i \in 1..NumSeries}

\* The portfolio mappings handed to set_strategy: ticker -> {weight, strategy}.
StrategyPortfolios ==
    {EmptyDict} \cup
    {[t \in {TickerNames[1]} |-> [weight |-> 1, strategy |-> s]] : s \in {"Hold", "Long"}}

\* datetime.now(): seconds and microseconds.
Datetimes == {[sec |-> s, usec |-> u] : s \in 1..2, u \in 0..1}

VARIABLES
    \* ---- Cache Store (cache_manager.py)
    portfolio_historical_cache, \* session_state.portfolio_historical_cache
    spy_historical_cache,       \* session_state.spy_historical_cache
    strategy_cache,             \* session_state.strategy_cache
    stray_attrs,                \* other attributes assigned on session_state
    portfolio_cache_file,       \* cache/portfolio_historical_prices.json
    spy_cache_file,             \* cache/spy_historical_prices.json
    strategy_cache_file,        \* cache/strategies.json
    cache_ret,                  \* result of the last cache operation
    last_set,                   \* history: ticker -> value most recently set
    \* ---- Broker Session (api_manager.py, IBKRApp)
    live_portfolio,             \* self.live_portfolio: symbol -> {market_value, currency}
    net_liquidation,            \* self.net_liquidation
    historical_data,            \* self.historical_data: symbol -> (date -> close)
    historical_data_requests,   \* self.historical_data_requests: reqId -> symbol
    reqId_counter,              \* self.reqId_counter
    lock_owner,                 \* the thread inside "with self.lock", or "none"
    cb_pc,                      \* position of the callback thread
    cb_contract,                \* the contract updatePortfolio is handling
    main_pc,                    \* position of the orchestration thread
    glp_todo,                   \* get_live_portfolio: items not yet iterated
    glp_weights,                \* get_live_portfolio: the dict being built
    glp_reads,                  \* get_live_portfolio: the (holdings, net liquidation) pairs read
    app_ret,                    \* what the last step of the session did or returned
    issued,                     \* request ids in the order the calls obtained them
    bars_recorded,              \* a bar has been stored
    holdings_arrived,           \* an updatePortfolio callback has arrived
    \* ---- Connection and threads (api_manager.py, dashboard.py)
    is_connected,               \* IBKRApp.is_connected (IBKRAppSPY defines no such attribute)
    thread_state,               \* self.thread of each session: "None", "alive" or "dead"
    live_threads,               \* threads of each session started and not yet ended
    run_pc,                     \* position of each background thread in run_app
    conn,                       \* the SDK's connection of each session is up
    spy_historical_data,        \* IBKRAppSPY.historical_data: date -> close
    spy_requests,               \* reqHistoricalData calls of IBKRAppSPY on this connection
    spy_ended,                  \* historicalDataEnd has fired in this run of the thread
    stop_pc,                    \* position of the orchestration thread in stop_thread
    dash_pc,                    \* position of the dashboard script
    session_keys,               \* the keys present in st.session_state
    acked,                      \* connectAck has run and connectionClosed has not since
    gw_acked,                   \* the gateway acknowledged the session's connection
    exc,                        \* run_app caught an exception in this run of the thread
    accesses,                   \* the shared fields the last step read or wrote
    conn_step,                  \* the operation and SDK callback of the last step
    \* ---- Portfolio Model (portfolio.py)
    pf_portfolio,               \* Portfolio.portfolio: ticker -> {weight, strategy}
    pf_historical_data,         \* Portfolio.historical_data: ticker -> series
    last_refresh_time,          \* Portfolio.last_refresh_time
    supplied,                   \* tickers a strategy has been supplied for
    pf_ret,                     \* what the last portfolio operation saw and did
    pf_alias,                   \* tickers whose series is the session's own dict object
    last_saved_time,            \* Portfolio.last_saved_time
    pf_cache_file,              \* cache/strategy.json
    saved_portfolio             \* the portfolio the last save_cache call was to save

cache_vars == <<portfolio_historical_cache, spy_historical_cache, strategy_cache,
                stray_attrs, portfolio_cache_file, spy_cache_file,
                strategy_cache_file, cache_ret, last_set>>

app_vars == <<live_portfolio, net_liquidation, historical_data,
              historical_data_requests, reqId_counter, lock_owner, cb_pc,
              cb_contract, main_pc, glp_todo, glp_weights, glp_reads, app_ret,
              issued, bars_recorded, holdings_arrived>>

conn_vars == <<is_connected, thread_state, live_threads, run_pc, conn, spy_historical_data,
               spy_requests, spy_ended, stop_pc, dash_pc, session_keys, acked,
               gw_acked, exc, accesses, conn_step>>

pf_vars == <<pf_portfolio, pf_historical_data, last_refresh_time, supplied, pf_ret,
             pf_alias, last_saved_time, pf_cache_file, saved_portfolio>>

vars == <<cache_vars, app_vars, conn_vars, pf_vars>>

\* ---------------------------------------------------------------- files
\* json.dump / json.load on the values the cache is given: dictionaries with
\* string keys (tickers, dates, field names) and numbers or strings as
\* leaves.  The text of such a value decodes to an equal value.
json_dump(data) == <<"json", data>>
json_load(text) == text[2]

\* A file is absent, or holds text; text is either what json.dump wrote or
\* bytes that json.load rejects.
NoFile == [exists |-> FALSE, valid |-> FALSE, text |-> <<"">>]
InvalidFile == [exists |-> TRUE, valid |-> FALSE, text |-> <<"{">>]

\* open(filepath, "w") and json.dump(data, file): the previous contents are
\* replaced by the encoding of data.
set_on_disk(data) == [exists |-> TRUE, valid |-> TRUE, text |-> json_dump(data)]

\* get_from_disk: None when the path does not exist; json.load raises
\* JSONDecodeError on invalid text.
get_from_disk(file) ==
    IF ~file.exists THEN [outcome |-> "return", value |-> None]
    ELSE IF ~file.valid THEN [outcome |-> "JSONDecodeError", value |-> None]
    ELSE [outcome |-> "return", value |-> Some(json_load(file.text))]

\* strftime('%Y-%m-%d %H:%M:%S') keeps whole seconds; strptime of that text
\* gives a datetime with zero microseconds.
strftime(t) == t.sec
strptime(s) == [sec |-> s, usec |-> 0]

Ret(op, key, outcome, value) ==
    [op |-> op, key |-> key, outcome |-> outcome, value |-> value]

CacheInit ==
    /\ portfolio_historical_cache = EmptyDict
    /\ spy_historical_cache = EmptyDict
    /\ strategy_cache = EmptyDict
    /\ stray_attrs = {}
    /\ portfolio_cache_file = NoFile
    /\ spy_cache_file = NoFile
    /\ strategy_cache_file = NoFile
    /\ cache_ret = Ret("init", "", "return", None)
    /\ last_set = EmptyDict

\* ------------------------------------------------------ cache operations
set_historical_data(ticker, data) ==
    LET mem == Put(portfolio_historical_cache, ticker, data) IN
    /\ portfolio_historical_cache' = mem
    /\ portfolio_cache_file' = set_on_disk(mem)
    /\ cache_ret' = Ret("set_historical_data", ticker, "return", None)
    /\ UNCHANGED <<spy_historical_cache, strategy_cache, stray_attrs,
                   spy_cache_file, strategy_cache_file>>
    /\ UNCHANGED <<app_vars, conn_vars, pf_vars>>

get_historical_data_result(ticker) ==
    LET inmem == ticker \in DOMAIN portfolio_historical_cache
        disk == get_from_disk(portfolio_cache_file) IN
    IF inmem /\ Truthy(portfolio_historical_cache[ticker])
    THEN [outcome |-> "return", value |-> Some(portfolio_historical_cache[ticker])]
    ELSE IF disk.outcome # "return" THEN disk
    ELSE IF ~disk.value.none /\ Truthy(disk.value.val)
            /\ ticker \in DOMAIN disk.value.val
    THEN [outcome |-> "return", value |-> Some(disk.value.val[ticker])]
    ELSE [outcome |-> "return", value |-> None]

get_historical_data(ticker) ==
    LET r == get_historical_data_result(ticker) IN
    /\ cache_ret' = Ret("get_historical_data", ticker, r.outcome, r.value)
    /\ UNCHANGED <<portfolio_historical_cache, spy_historical_cache,
                   strategy_cache, stray_attrs, portfolio_cache_file,
                   spy_cache_file, strategy_cache_file, last_set>>
    /\ UNCHANGED <<app_vars, conn_vars, pf_vars>>

set_spy_data(data) ==
    /\ spy_historical_cache' = data
    /\ spy_cache_file' = set_on_disk(data)
    /\ cache_ret' = Ret("set_spy_data", "", "return", None)
    /\ UNCHANGED <<portfolio_historical_cache, strategy_cache, stray_attrs,
                   portfolio_cache_file, strategy_cache_file, last_set>>
    /\ UNCHANGED <<app_vars, conn_vars, pf_vars>>

get_spy_data_result ==
    IF Truthy(spy_historical_cache)
    THEN [outcome |-> "return", value |-> Some(spy_historical_cache)]
    ELSE get_from_disk(spy_cache_file)

get_spy_data ==
    /\ cache_ret' = Ret("get_spy_data", "", get_spy_data_result.outcome,
                        get_spy_data_result.value)
    /\ UNCHANGED <<portfolio_historical_cache, spy_historical_cache,
                   strategy_cache, stray_attrs, portfolio_cache_file,
                   spy_cache_file, strategy_cache_file, last_set>>
    /\ UNCHANGED <<app_vars, conn_vars, pf_vars>>

set_strategy(portfolio, now) ==
    /\ strategy_cache_file' =
           set_on_disk([portfolio |-> portfolio,
                        last_cached_time |-> strftime(now)])
    /\ cache_ret' = Ret("set_strategy", "", "return", None)
    /\ UNCHANGED <<portfolio_historical_cache, spy_historical_cache,
                   strategy_cache, stray_attrs, portfolio_cache_file,
                   spy_cache_file, last_set>>
    /\ UNCHANGED <<app_vars, conn_vars, pf_vars>>

\* Both except-clauses call st.warning, and cache_manager.py never imports
\* st: the handler itself raises NameError.
load_strategy_cache_result ==
    IF ~strategy_cache_file.exists
    THEN [outcome |-> "NameError", value |-> None]
    ELSE IF ~strategy_cache_file.valid
    THEN [outcome |-> "NameError", value |-> None]
    ELSE [outcome |-> "return",
          value |-> Some([portfolio |-> json_load(strategy_cache_file.text).portfolio,
                          last_cached_time |->
                              strptime(json_load(strategy_cache_file.text).last_cached_time)])]

load_strategy_cache ==
    /\ cache_ret' = Ret("load_strategy_cache", "",
                        load_strategy_cache_result.outcome,
                        load_strategy_cache_result.value)
    /\ UNCHANGED <<portfolio_historical_cache, spy_historical_cache,
                   strategy_cache, stray_attrs, portfolio_cache_file,
                   spy_cache_file, strategy_cache_file, last_set>>
    /\ UNCHANGED <<app_vars, conn_vars, pf_vars>>

\* clear_cache assigns two attributes that no other method reads, then
\* evaluates self.historical_data_path, which __init__ never defines.
clear_cache ==
    /\ stray_attrs' = stray_attrs \cup {"historical_data_cache", "spy_data_cache"}
    /\ cache_ret' = Ret("clear_cache", "", "AttributeError", None)
    /\ UNCHANGED <<portfolio_historical_cache, spy_historical_cache,
                   strategy_cache, portfolio_cache_file, spy_cache_file,
                   strategy_cache_file, last_set>>
    /\ UNCHANGED <<app_vars, conn_vars, pf_vars>>

\* A new process: a fresh session_state goes through __init__, the files stay.
Restart ==
    /\ portfolio_historical_cache' = EmptyDict
    /\ spy_historical_cache' = EmptyDict
    /\ strategy_cache' = EmptyDict
    /\ stray_attrs' = {}
    /\ cache_ret' = Ret("restart", "", "return", None)
    /\ UNCHANGED <<portfolio_cache_file, spy_cache_file, strategy_cache_file,
                   last_set>>
    /\ UNCHANGED <<app_vars, conn_vars, pf_vars>>

\* The environment leaves text that is not JSON in an existing cache file.
CacheFiles == {"portfolio", "spy", "strategy"}
CorruptFile(f) ==
    /\ \/ f = "portfolio" /\ portfolio_cache_file.exists
       \/ f = "spy" /\ spy_cache_file.exists
       \/ f = "strategy" /\ strategy_cache_file.exists
    /\ portfolio_cache_file' =
           IF f = "portfolio" THEN InvalidFile ELSE portfolio_cache_file
    /\ spy_cache_file' = IF f = "spy" THEN InvalidFile ELSE spy_cache_file
    /\ strategy_cache_file' =
           IF f = "strategy" THEN InvalidFile ELSE strategy_cache_file
    /\ cache_ret' = Ret("corrupt", f, "return", None)
    /\ UNCHANGED <<portfolio_historical_cache, spy_historical_cache,
                   strategy_cache, stray_attrs, last_set>>
    /\ UNCHANGED <<app_vars, conn_vars, pf_vars>>

\* ------------------------------------------------------- Broker Session
\* Inputs of the callbacks.  Market values are multiples of every non-zero
\* net liquidation value, so that the float division of get_live_portfolio
\* is exact and \div computes it.
MarketValues == {0} \cup {6 * i : i \in 1..NumValues}
SecTypes == {"STK", "OPT"}
Currencies == {"USD"}
AccountKeys == {"NetLiquidation", "Currency"}
AccountVals == {"0", "2", "3", "USD"}
ReqIds == 0..MaxReq

\* float(val) for the strings the gateway sends under NetLiquidation.
float(val) == CASE val = "0" -> 0 [] val = "2" -> 2 [] val = "3" -> 3

NoContract == [symbol |-> "", secType |-> "", currency |-> ""]

AppRet(op, outcome, value) ==
    [op |-> op, outcome |-> outcome, value |-> value]

AppInit ==
    /\ live_portfolio = EmptyDict
    /\ net_liquidation = 0
    /\ historical_data = EmptyDict
    /\ historical_data_requests = EmptyDict
    /\ reqId_counter = 0
    /\ lock_owner = "none"
    /\ cb_pc = "idle"
    /\ cb_contract = NoContract
    /\ main_pc = "idle"
    /\ glp_todo = {}
    /\ glp_weights = EmptyDict
    /\ glp_reads = {}
    /\ app_ret = AppRet("init", "return", None)
    /\ issued = <<>>
    /\ bars_recorded = FALSE
    /\ holdings_arrived = FALSE

\* threading.RLock: a thread enters "with self.lock" when no other thread
\* is inside.
can_lock(thread) == lock_owner = "none" \/ lock_owner = thread

\* updatePortfolio that issues no request for a ticker a request is already
\* outstanding for.
updatePortfolio_skip_known(contract, marketValue) ==
    LET outstanding ==
            \E r \in DOMAIN historical_data_requests :
                historical_data_requests[r] = contract.symbol IN
    /\ cb_pc = "idle"
    /\ reqId_counter < MaxReq
    /\ IF contract.secType = "STK"
       THEN /\ can_lock("callback")
            /\ live_portfolio' =
                   Put(live_portfolio, contract.symbol,
                       [market_value |-> marketValue,
                        currency |-> contract.currency])
       ELSE UNCHANGED live_portfolio
    /\ cb_pc' = IF outstanding THEN "idle" ELSE "request"
    /\ cb_contract' = IF outstanding THEN NoContract ELSE contract
    /\ holdings_arrived' = TRUE
    /\ app_ret' = AppRet("updatePortfolio", "running", None)
    /\ UNCHANGED <<net_liquidation, historical_data, historical_data_requests,
                   reqId_counter, lock_owner, main_pc, glp_todo, glp_weights,
                   glp_reads, issued, bars_recorded>>
    /\ UNCHANGED <<cache_vars, conn_vars, pf_vars>>

\* updatePortfolio up to the call of request_historical_data: the holding
\* is recorded, under the lock, for a stock-type contract only.
updatePortfolio(contract, marketValue) ==
    /\ cb_pc = "idle"
    /\ reqId_counter < MaxReq
    /\ IF contract.secType = "STK"
       THEN /\ can_lock("callback")
            /\ live_portfolio' =
                   Put(live_portfolio, contract.symbol,
                       [market_value |-> marketValue,
                        currency |-> contract.currency])
       ELSE UNCHANGED live_portfolio
    /\ cb_pc' = "request"
    /\ cb_contract' = contract
    /\ holdings_arrived' = TRUE
    /\ app_ret' = AppRet("updatePortfolio", "running", None)
    /\ UNCHANGED <<net_liquidation, historical_data, historical_data_requests,
                   reqId_counter, lock_owner, main_pc, glp_todo, glp_weights,
                   glp_reads, issued, bars_recorded>>
    /\ UNCHANGED <<cache_vars, conn_vars, pf_vars>>

\* request_historical_data with the fixed request id of the market-index
\* session (reqId=1) instead of the incremented counter.
request_historical_data_fixed_id ==
    /\ cb_pc = "request"
    /\ can_lock("callback")
    /\ reqId_counter' = reqId_counter + 1
    /\ historical_data_requests' =
           Put(historical_data_requests, 1, cb_contract.symbol)
    /\ issued' = Append(issued, 1)
    /\ cb_pc' = "idle"
    /\ cb_contract' = NoContract
    /\ app_ret' = AppRet("request_historical_data", "return", None)
    /\ UNCHANGED <<live_portfolio, net_liquidation, historical_data,
                   lock_owner, main_pc, glp_todo, glp_weights, glp_reads,
                   bars_recorded, holdings_arrived>>
    /\ UNCHANGED <<cache_vars, conn_vars, pf_vars>>

\* request_historical_data(contract), called last by updatePortfolio.
request_historical_data ==
    /\ cb_pc = "request"
    /\ can_lock("callback")
    /\ reqId_counter' = reqId_counter + 1
    /\ historical_data_requests' =
           Put(historical_data_requests, reqId_counter + 1, cb_contract.symbol)
    /\ issued' = Append(issued, reqId_counter + 1)
    /\ cb_pc' = "idle"
    /\ cb_contract' = NoContract
    /\ app_ret' = AppRet("request_historical_data", "return", None)
    /\ UNCHANGED <<live_portfolio, net_liquidation, historical_data,
                   lock_owner, main_pc, glp_todo, glp_weights, glp_reads,
                   bars_recorded, holdings_arrived>>
    /\ UNCHANGED <<cache_vars, conn_vars, pf_vars>>

\* updateAccountValue without "with self.lock".
updateAccountValue_nolock(key, val) ==
    /\ cb_pc = "idle"
    /\ key = "NetLiquidation" => val # "USD"
    /\ net_liquidation' = IF key = "NetLiquidation" THEN float(val)
                          ELSE net_liquidation
    /\ app_ret' = AppRet("updateAccountValue", "return", None)
    /\ UNCHANGED <<live_portfolio, historical_data, historical_data_requests,
                   reqId_counter, lock_owner, cb_pc, cb_contract, main_pc,
                   glp_todo, glp_weights, glp_reads, issued, bars_recorded,
                   holdings_arrived>>
    /\ UNCHANGED <<cache_vars, conn_vars, pf_vars>>

updateAccountValue(key, val) ==
    /\ cb_pc = "idle"
    /\ can_lock("callback")
    /\ key = "NetLiquidation" => val # "USD"
    /\ net_liquidation' = IF key = "NetLiquidation" THEN float(val)
                          ELSE net_liquidation
    /\ app_ret' = AppRet("updateAccountValue", "return", None)
    /\ UNCHANGED <<live_portfolio, historical_data, historical_data_requests,
                   reqId_counter, lock_owner, cb_pc, cb_contract, main_pc,
                   glp_todo, glp_weights, glp_reads, issued, bars_recorded,
                   holdings_arrived>>
    /\ UNCHANGED <<cache_vars, conn_vars, pf_vars>>

\* historicalData that assigns a new one-bar series instead of adding the
\* bar to the ticker's series.
historicalData_replace(reqId, bar) ==
    LET known == reqId \in DOMAIN historical_data_requests
        symbol == historical_data_requests[reqId] IN
    /\ cb_pc = "idle"
    /\ can_lock("callback")
    /\ IF known
       THEN /\ historical_data' =
                   Put(historical_data, symbol, Put(EmptyDict, bar.date, bar.close))
            /\ bars_recorded' = TRUE
       ELSE UNCHANGED <<historical_data, bars_recorded>>
    /\ app_ret' = AppRet("historicalData", "return", None)
    /\ UNCHANGED <<live_portfolio, net_liquidation, historical_data_requests,
                   reqId_counter, lock_owner, cb_pc, cb_contract, main_pc,
                   glp_todo, glp_weights, glp_reads, issued, holdings_arrived>>
    /\ UNCHANGED <<cache_vars, conn_vars, pf_vars>>

\* historicalData that files a bar of an unknown request id under the
\* ticker of the latest request.
historicalData_guess(reqId, bar) ==
    LET known == reqId \in DOMAIN historical_data_requests
        symbol == IF known THEN historical_data_requests[reqId]
                  ELSE historical_data_requests[reqId_counter]
        series == IF symbol \in DOMAIN historical_data
                  THEN historical_data[symbol] ELSE EmptyDict IN
    /\ cb_pc = "idle"
    /\ can_lock("callback")
    /\ IF known \/ reqId_counter \in DOMAIN historical_data_requests
       THEN /\ historical_data' =
                   Put(historical_data, symbol, Put(series, bar.date, bar.close))
            /\ bars_recorded' = TRUE
       ELSE UNCHANGED <<historical_data, bars_recorded>>
    /\ app_ret' = AppRet("historicalData", "return", None)
    /\ UNCHANGED <<live_portfolio, net_liquidation, historical_data_requests,
                   reqId_counter, lock_owner, cb_pc, cb_contract, main_pc,
                   glp_todo, glp_weights, glp_reads, issued, holdings_arrived>>
    /\ UNCHANGED <<cache_vars, conn_vars, pf_vars>>

historicalData(reqId, bar) ==
    LET known == reqId \in DOMAIN historical_data_requests
        symbol == historical_data_requests[reqId]
        series == IF symbol \in DOMAIN historical_data
                  THEN historical_data[symbol] ELSE EmptyDict IN
    /\ cb_pc = "idle"
    /\ can_lock("callback")
    /\ IF known
       THEN /\ historical_data' =
                   Put(historical_data, symbol, Put(series, bar.date, bar.close))
            /\ bars_recorded' = TRUE
       ELSE UNCHANGED <<historical_data, bars_recorded>>
    /\ app_ret' = AppRet("historicalData", "return", None)
    /\ UNCHANGED <<live_portfolio, net_liquidation, historical_data_requests,
                   reqId_counter, lock_owner, cb_pc, cb_contract, main_pc,
                   glp_todo, glp_weights, glp_reads, issued, holdings_arrived>>
    /\ UNCHANGED <<cache_vars, conn_vars, pf_vars>>

\* get_live_portfolio: enter the lock, raise on an empty holdings map,
\* otherwise build the weights one item of live_portfolio.items() at a time.
get_live_portfolio_enter ==
    /\ main_pc = "idle"
    /\ can_lock("main")
    /\ lock_owner' = "main"
    /\ main_pc' = "glp_check"
    /\ glp_reads' = {}
    /\ glp_weights' = EmptyDict
    /\ glp_todo' = {}
    /\ app_ret' = AppRet("get_live_portfolio", "running", None)
    /\ UNCHANGED <<live_portfolio, net_liquidation, historical_data,
                   historical_data_requests, reqId_counter, cb_pc, cb_contract,
                   issued, bars_recorded, holdings_arrived>>
    /\ UNCHANGED <<cache_vars, conn_vars, pf_vars>>

get_live_portfolio_check ==
    /\ main_pc = "glp_check"
    /\ IF ~Truthy(live_portfolio)
       THEN /\ app_ret' = AppRet("get_live_portfolio", "ValueError", None)
            /\ main_pc' = "idle"
            /\ lock_owner' = "none"
            /\ UNCHANGED glp_todo
       ELSE /\ app_ret' = AppRet("get_live_portfolio", "running", None)
            /\ main_pc' = "glp_iter"
            /\ glp_todo' = DOMAIN live_portfolio
            /\ UNCHANGED lock_owner
    /\ UNCHANGED <<live_portfolio, net_liquidation, historical_data,
                   historical_data_requests, reqId_counter, cb_pc, cb_contract,
                   glp_weights, glp_reads, issued, bars_recorded,
                   holdings_arrived>>
    /\ UNCHANGED <<cache_vars, conn_vars, pf_vars>>

\* One item of the comprehension; a dictionary that changed size while it
\* is iterated raises RuntimeError.
get_live_portfolio_item(stock) ==
    /\ main_pc = "glp_iter"
    /\ stock \in glp_todo
    /\ glp_reads' = glp_reads \cup {<<live_portfolio, net_liquidation>>}
    /\ IF net_liquidation = 0
       THEN /\ app_ret' = AppRet("get_live_portfolio", "ZeroDivisionError", None)
            /\ main_pc' = "idle"
            /\ lock_owner' = "none"
            /\ glp_todo' = {}
            /\ glp_weights' = EmptyDict
       ELSE /\ glp_weights' =
                   Put(glp_weights, stock,
                       live_portfolio[stock].market_value \div net_liquidation)
            /\ glp_todo' = glp_todo \ {stock}
            /\ app_ret' = AppRet("get_live_portfolio", "running", None)
            /\ UNCHANGED <<main_pc, lock_owner>>
    /\ UNCHANGED <<live_portfolio, net_liquidation, historical_data,
                   historical_data_requests, reqId_counter, cb_pc, cb_contract,
                   issued, bars_recorded, holdings_arrived>>
    /\ UNCHANGED <<cache_vars, conn_vars, pf_vars>>

get_live_portfolio_return ==
    /\ main_pc = "glp_iter"
    /\ glp_todo = {}
    /\ app_ret' = AppRet("get_live_portfolio", "return", Some(glp_weights))
    /\ main_pc' = "idle"
    /\ lock_owner' = "none"
    /\ glp_weights' = EmptyDict
    /\ UNCHANGED <<live_portfolio, net_liquidation, historical_data,
                   historical_data_requests, reqId_counter, cb_pc, cb_contract,
                   glp_todo, glp_reads, issued, bars_recorded,
                   holdings_arrived>>
    /\ UNCHANGED <<cache_vars, conn_vars, pf_vars>>

\* IBKRApp.get_historical_data returns self.historical_data itself.
HistoricalDataRef == [none |-> FALSE, val |-> "self.historical_data"]

\* get_historical_data without the emptiness test.
app_get_historical_data_noraise ==
    /\ main_pc = "idle"
    /\ can_lock("main")
    /\ app_ret' = AppRet("get_historical_data", "return", HistoricalDataRef)
    /\ UNCHANGED <<live_portfolio, net_liquidation, historical_data,
                   historical_data_requests, reqId_counter, lock_owner, cb_pc,
                   cb_contract, main_pc, glp_todo, glp_weights, glp_reads,
                   issued, bars_recorded, holdings_arrived>>
    /\ UNCHANGED <<cache_vars, conn_vars, pf_vars>>

app_get_historical_data ==
    /\ main_pc = "idle"
    /\ can_lock("main")
    /\ app_ret' = IF ~Truthy(historical_data)
                  THEN AppRet("get_historical_data", "ValueError", None)
                  ELSE AppRet("get_historical_data", "return", HistoricalDataRef)
    /\ UNCHANGED <<live_portfolio, net_liquidation, historical_data,
                   historical_data_requests, reqId_counter, lock_owner, cb_pc,
                   cb_contract, main_pc, glp_todo, glp_weights, glp_reads,
                   issued, bars_recorded, holdings_arrived>>
    /\ UNCHANGED <<cache_vars, conn_vars, pf_vars>>

Contracts ==
    {[symbol |-> t, secType |-> st, currency |-> c] :
        t \in Tickers, st \in SecTypes, c \in Currencies}
Bars == {[date |-> d, close |-> c] : d \in Dates, c \in Closes}

AppNext ==
    \/ \E c \in Contracts, mv \in MarketValues : updatePortfolio(c, mv)
    \/ request_historical_data
    \/ \E k \in AccountKeys, v \in AccountVals : updateAccountValue(k, v)
    \/ \E r \in ReqIds, b \in Bars : historicalData(r, b)
    \/ get_live_portfolio_enter
    \/ get_live_portfolio_check
    \/ \E stock \in Tickers : get_live_portfolio_item(stock)
    \/ get_live_portfolio_return
    \/ app_get_historical_data

\* ================================================ connection and threads
\* api_manager.py: the background thread of each session (start_thread,
\* run_app, stop_thread), IBKRApp's connection flag, IBKRAppSPY's callbacks;
\* dashboard.py: the start-up of the script up to the connection check.
\*
\* connect(), run(), disconnect() and the delivery of callbacks belong to
\* the broker SDK.  Of the SDK the model takes: connect() ends by calling
\* connectAck on the wrapper when the gateway accepted the connection;
\* run() dispatches callbacks while the connection is up and returns once
\* it is down; disconnect() on an open connection closes it and calls
\* connectionClosed; nextValidId arrives once per connection; either call
\* may raise at any point, with or without the connection having been
\* closed first.
Sessions == {"main", "spy"}
\* The classes that define an is_connected attribute (api_manager.py line 27;
\* IBKRAppSPY.__init__, lines 274-281, assigns none and the class defines no
\* connectAck or connectionClosed).
SessionsWithFlag == {"main"}

Access(field, kind, locked) == [field |-> field, kind |-> kind, locked |-> locked]
ConnStep(op, s, cb) == [op |-> op, s |-> s, cb |-> cb]

ConnInit ==
    /\ is_connected = FALSE
    /\ thread_state = [s \in Sessions |-> "None"]
    /\ live_threads = [s \in Sessions |-> 0]
    /\ run_pc = [s \in Sessions |-> "none"]
    /\ conn = [s \in Sessions |-> FALSE]
    /\ spy_historical_data = EmptyDict
    /\ spy_requests = 0
    /\ spy_ended = FALSE
    /\ stop_pc = [s \in Sessions |-> "idle"]
    /\ dash_pc = "idle"
    /\ session_keys = {}
    /\ acked = FALSE
    /\ gw_acked = [s \in Sessions |-> FALSE]
    /\ exc = [s \in Sessions |-> FALSE]
    /\ accesses = {}
    /\ conn_step = ConnStep("init", "", "")

\* The value of IBKRApp.is_connected after the callback; IBKRAppSPY inherits
\* the SDK's empty connectAck and connectionClosed.  Neither takes the lock.
connectAck(s) == IF s \in SessionsWithFlag THEN TRUE ELSE is_connected

connectionClosed_keep(s) == is_connected

connectionClosed(s) == IF s \in SessionsWithFlag THEN FALSE ELSE is_connected

FlagWrite(s) ==
    IF s \in SessionsWithFlag THEN {Access("is_connected", "write", FALSE)} ELSE {}
FlagRead == {Access("is_connected", "read", FALSE)}

\* The orchestration thread is in no call and the script is not running.
OrchIdle ==
    /\ dash_pc \in {"idle", "aborted", "scheduled"}
    /\ \A s \in Sessions : stop_pc[s] = "idle"

\* start_thread without the test of self.thread: a thread on every call.
start_thread_effect_always(s) ==
    /\ thread_state' = [thread_state EXCEPT ![s] = "alive"]
    /\ live_threads' = [live_threads EXCEPT ![s] = @ + 1]
    /\ run_pc' = [run_pc EXCEPT ![s] = "connect"]
    /\ exc' = [exc EXCEPT ![s] = FALSE]
    /\ spy_ended' = IF s = "spy" THEN FALSE ELSE spy_ended

\* What start_thread does to the thread of session s: "if not self.thread or
\* not self.thread.is_alive()" it creates and starts one, else nothing.
start_thread_effect(s) ==
    IF thread_state[s] # "alive"
    THEN /\ thread_state' = [thread_state EXCEPT ![s] = "alive"]
         /\ live_threads' = [live_threads EXCEPT ![s] = @ + 1]
         /\ run_pc' = [run_pc EXCEPT ![s] = "connect"]
         /\ exc' = [exc EXCEPT ![s] = FALSE]
         /\ spy_ended' = IF s = "spy" THEN FALSE ELSE spy_ended
    ELSE UNCHANGED <<thread_state, live_threads, run_pc, exc, spy_ended>>

start_thread(s) ==
    /\ OrchIdle
    /\ start_thread_effect(s)
    /\ accesses' = {}
    /\ conn_step' = ConnStep("start_thread", s, "")
    /\ UNCHANGED <<is_connected, conn, spy_historical_data, spy_requests,
                   stop_pc, dash_pc, session_keys, acked, gw_acked>>
    /\ UNCHANGED <<cache_vars, app_vars, pf_vars>>

\* run_app, the call of connect(): the gateway acknowledges ("ack"), the
\* client already holds an open connection or the gateway refuses and the
\* SDK reports it through error() ("return"), or the call raises and
\* run_app's handler prints the exception, which ends the thread.
run_app_connect(s, outcome) ==
    /\ run_pc[s] = "connect"
    /\ outcome = "ack" => ~conn[s]
    /\ run_pc' = [run_pc EXCEPT ![s] = IF outcome = "raise" THEN "done" ELSE "run"]
    /\ thread_state' = [thread_state EXCEPT ![s] = IF outcome = "raise" THEN "dead" ELSE @]
    /\ live_threads' = [live_threads EXCEPT ![s] = IF outcome = "raise" THEN @ - 1 ELSE @]
    /\ exc' = [exc EXCEPT ![s] = (outcome = "raise")]
    /\ conn' = [conn EXCEPT ![s] = IF outcome = "ack" THEN TRUE ELSE @]
    /\ gw_acked' = [gw_acked EXCEPT ![s] = IF outcome = "ack" THEN TRUE ELSE @]
    /\ is_connected' = IF outcome = "ack" THEN connectAck(s) ELSE is_connected
    /\ acked' = IF outcome = "ack" /\ s = "main" THEN TRUE ELSE acked
    /\ spy_requests' = IF outcome = "ack" /\ s = "spy" THEN 0 ELSE spy_requests
    /\ spy_ended' = IF outcome = "ack" /\ s = "spy" THEN FALSE ELSE spy_ended
    /\ accesses' = IF outcome = "ack" THEN FlagWrite(s) ELSE {}
    /\ conn_step' = ConnStep("run_app", s, IF outcome = "ack" THEN "connectAck" ELSE "")
    /\ UNCHANGED <<spy_historical_data, stop_pc, dash_pc, session_keys>>
    /\ UNCHANGED <<cache_vars, app_vars, pf_vars>>

\* The SDK's disconnect() as called by the session's own code.
disconnect(s) ==
    /\ conn' = [conn EXCEPT ![s] = FALSE]
    /\ gw_acked' = [gw_acked EXCEPT ![s] = FALSE]
    /\ is_connected' = IF conn[s] THEN connectionClosed(s) ELSE is_connected
    /\ acked' = IF conn[s] /\ s = "main" THEN FALSE ELSE acked
    /\ accesses' = IF conn[s] THEN FlagWrite(s) ELSE {}

\* The gateway or the network closes the connection while run() dispatches.
connection_lost(s) ==
    /\ run_pc[s] = "run"
    /\ conn[s]
    /\ disconnect(s)
    /\ conn_step' = ConnStep("run_app", s, "connectionClosed")
    /\ UNCHANGED <<thread_state, live_threads, run_pc, exc, spy_historical_data, spy_requests,
                   spy_ended, stop_pc, dash_pc, session_keys>>
    /\ UNCHANGED <<cache_vars, app_vars, pf_vars>>

\* run() raises; closed tells whether the SDK closed the connection and
\* reported connectionClosed before the exception left run().  run_app's
\* handler prints the exception and the thread ends.
run_app_raise(s, closed) ==
    /\ run_pc[s] = "run"
    /\ closed => conn[s]
    /\ IF closed THEN disconnect(s)
       ELSE /\ UNCHANGED <<conn, gw_acked, is_connected, acked>>
            /\ accesses' = {}
    /\ run_pc' = [run_pc EXCEPT ![s] = "done"]
    /\ thread_state' = [thread_state EXCEPT ![s] = "dead"]
    /\ live_threads' = [live_threads EXCEPT ![s] = @ - 1]
    /\ exc' = [exc EXCEPT ![s] = TRUE]
    /\ conn_step' = ConnStep("run_app", s, IF closed THEN "connectionClosed" ELSE "")
    /\ UNCHANGED <<spy_historical_data, spy_requests, spy_ended, stop_pc,
                   dash_pc, session_keys>>
    /\ UNCHANGED <<cache_vars, app_vars, pf_vars>>

\* run() returns because the connection is down; run_app and the thread end.
run_app_return(s) ==
    /\ run_pc[s] = "run"
    /\ ~conn[s]
    /\ run_pc' = [run_pc EXCEPT ![s] = "done"]
    /\ thread_state' = [thread_state EXCEPT ![s] = "dead"]
    /\ live_threads' = [live_threads EXCEPT ![s] = @ - 1]
    /\ accesses' = {}
    /\ conn_step' = ConnStep("run_app", s, "")
    /\ UNCHANGED <<is_connected, conn, exc, spy_historical_data, spy_requests,
                   spy_ended, stop_pc, dash_pc, session_keys, acked, gw_acked>>
    /\ UNCHANGED <<cache_vars, app_vars, pf_vars>>

\* stop_thread, first statements: (IBKRApp only: reqAccountUpdates(False, ""),)
\* disconnect().
stop_thread_disconnect(s) ==
    /\ OrchIdle
    /\ disconnect(s)
    /\ stop_pc' = [stop_pc EXCEPT ![s] = "check"]
    /\ conn_step' = ConnStep("stop_thread", s, IF conn[s] THEN "connectionClosed" ELSE "")
    /\ UNCHANGED <<thread_state, live_threads, run_pc, exc, spy_historical_data, spy_requests,
                   spy_ended, dash_pc, session_keys>>
    /\ UNCHANGED <<cache_vars, app_vars, pf_vars>>

\* "if self.thread and self.thread.is_alive()": join, or return at once.
stop_thread_check(s) ==
    /\ stop_pc[s] = "check"
    /\ stop_pc' = [stop_pc EXCEPT ![s] = IF thread_state[s] = "alive" THEN "join" ELSE "idle"]
    /\ accesses' = {}
    /\ conn_step' = ConnStep(IF thread_state[s] = "alive" THEN "stop_thread"
                             ELSE "stop_thread_return", s, "")
    /\ UNCHANGED <<is_connected, thread_state, live_threads, run_pc, conn, exc, spy_historical_data,
                   spy_requests, spy_ended, dash_pc, session_keys, acked, gw_acked>>
    /\ UNCHANGED <<cache_vars, app_vars, pf_vars>>

stop_thread_join_nowait(s) ==
    /\ stop_pc[s] = "join"
    /\ stop_pc' = [stop_pc EXCEPT ![s] = "idle"]
    /\ accesses' = {}
    /\ conn_step' = ConnStep("stop_thread_joined", s, "")
    /\ UNCHANGED <<is_connected, thread_state, live_threads, run_pc, conn, exc, spy_historical_data,
                   spy_requests, spy_ended, dash_pc, session_keys, acked, gw_acked>>
    /\ UNCHANGED <<cache_vars, app_vars, pf_vars>>

\* self.thread.join() returns once the thread has ended; stop_thread returns.
stop_thread_join(s) ==
    /\ stop_pc[s] = "join"
    /\ thread_state[s] # "alive"
    /\ stop_pc' = [stop_pc EXCEPT ![s] = "idle"]
    /\ accesses' = {}
    /\ conn_step' = ConnStep("stop_thread_joined", s, "")
    /\ UNCHANGED <<is_connected, thread_state, live_threads, run_pc, conn, exc, spy_historical_data,
                   spy_requests, spy_ended, dash_pc, session_keys, acked, gw_acked>>
    /\ UNCHANGED <<cache_vars, app_vars, pf_vars>>

\* ---- IBKRAppSPY's callbacks, dispatched by run() on the spy thread
SpyDispatching == run_pc["spy"] = "run" /\ conn["spy"]

\* nextValidId -> request_historical_data -> reqHistoricalData(reqId=1, ...)
nextValidId ==
    /\ SpyDispatching
    /\ spy_requests = 0
    /\ spy_requests' = spy_requests + 1
    /\ accesses' = {}
    /\ conn_step' = ConnStep("run_app", "spy", "nextValidId")
    /\ UNCHANGED <<is_connected, thread_state, live_threads, run_pc, conn, exc, spy_historical_data,
                   spy_ended, stop_pc, dash_pc, session_keys, acked, gw_acked>>
    /\ UNCHANGED <<cache_vars, app_vars, pf_vars>>

\* A bar of the answer to the request arrives.
spy_historicalData(bar) ==
    /\ SpyDispatching
    /\ spy_requests > 0
    /\ spy_historical_data' = Put(spy_historical_data, bar.date, bar.close)
    /\ accesses' = {Access("historical_data", "write", TRUE)}
    /\ conn_step' = ConnStep("run_app", "spy", "historicalData")
    /\ UNCHANGED <<is_connected, thread_state, live_threads, run_pc, conn, exc, spy_requests,
                   spy_ended, stop_pc, dash_pc, session_keys, acked, gw_acked>>
    /\ UNCHANGED <<cache_vars, app_vars, pf_vars>>

historicalDataEnd_stay ==
    /\ SpyDispatching
    /\ spy_requests > 0
    /\ ~spy_ended
    /\ spy_ended' = TRUE
    /\ accesses' = {}
    /\ conn_step' = ConnStep("run_app", "spy", "historicalDataEnd")
    /\ UNCHANGED <<conn, gw_acked, is_connected, acked>>
    /\ UNCHANGED <<thread_state, live_threads, run_pc, exc, spy_historical_data, spy_requests,
                   stop_pc, dash_pc, session_keys>>
    /\ UNCHANGED <<cache_vars, app_vars, pf_vars>>

\* The request's terminal callback: self.disconnect().
historicalDataEnd ==
    /\ SpyDispatching
    /\ spy_requests > 0
    /\ ~spy_ended
    /\ spy_ended' = TRUE
    /\ disconnect("spy")
    /\ conn_step' = ConnStep("run_app", "spy", "historicalDataEnd")
    /\ UNCHANGED <<thread_state, live_threads, run_pc, exc, spy_historical_data, spy_requests,
                   stop_pc, dash_pc, session_keys>>
    /\ UNCHANGED <<cache_vars, app_vars, pf_vars>>

\* ---- dashboard.py, one run of the script per rerun
\* Lines 22-25: the session is created and started on the first run only.
dashboard_app ==
    /\ OrchIdle
    /\ IF "ibkr_app" \notin session_keys
       THEN /\ session_keys' = session_keys \cup {"ibkr_app"}
            /\ start_thread_effect("main")
            /\ dash_pc' = "wait_main"
       ELSE /\ dash_pc' = "spy"
            /\ UNCHANGED <<session_keys, thread_state, live_threads, run_pc, exc, spy_ended>>
    /\ accesses' = {}
    /\ conn_step' = ConnStep("dashboard", "main", "")
    /\ UNCHANGED <<is_connected, conn, spy_historical_data, spy_requests,
                   stop_pc, acked, gw_acked>>
    /\ UNCHANGED <<cache_vars, app_vars, pf_vars>>

\* Lines 28-29: "while not ibkr_app.is_connected: time.sleep(1)".
dashboard_wait_app ==
    /\ dash_pc = "wait_main"
    /\ dash_pc' = IF is_connected THEN "spy" ELSE "wait_main"
    /\ accesses' = FlagRead
    /\ conn_step' = ConnStep("dashboard", "main", "")
    /\ UNCHANGED <<is_connected, thread_state, live_threads, run_pc, conn, exc, spy_historical_data,
                   spy_requests, spy_ended, stop_pc, session_keys, acked, gw_acked>>
    /\ UNCHANGED <<cache_vars, app_vars, pf_vars>>

\* Lines 32-34.
dashboard_spy ==
    /\ dash_pc = "spy"
    /\ IF "ibkr_app_spy" \notin session_keys
       THEN /\ session_keys' = session_keys \cup {"ibkr_app_spy"}
            /\ start_thread_effect("spy")
            /\ dash_pc' = "wait_spy"
       ELSE /\ dash_pc' = "check"
            /\ UNCHANGED <<session_keys, thread_state, live_threads, run_pc, exc, spy_ended>>
    /\ accesses' = {}
    /\ conn_step' = ConnStep("dashboard", "spy", "")
    /\ UNCHANGED <<is_connected, conn, spy_historical_data, spy_requests,
                   stop_pc, acked, gw_acked>>
    /\ UNCHANGED <<cache_vars, app_vars, pf_vars>>

\* Line 37: "while not ibkr_app_spy.is_connected": the object has no such
\* attribute, the expression raises AttributeError and the run ends there.
dashboard_wait_spy ==
    /\ dash_pc = "wait_spy"
    /\ dash_pc' = IF "spy" \in SessionsWithFlag THEN "check" ELSE "aborted"
    /\ accesses' = {}
    /\ conn_step' = ConnStep("dashboard", "spy", "")
    /\ UNCHANGED <<is_connected, thread_state, live_threads, run_pc, conn, exc, spy_historical_data,
                   spy_requests, spy_ended, stop_pc, session_keys, acked, gw_acked>>
    /\ UNCHANGED <<cache_vars, app_vars, pf_vars>>

\* Line 41: "if ibkr_app.is_connected and ibkr_app_spy.is_connected": the
\* second operand is evaluated, and raises, when the first is true;
\* otherwise the run goes on to st_autorefresh (lines 72-73).
dashboard_check ==
    /\ dash_pc = "check"
    /\ dash_pc' = IF is_connected
                  THEN (IF "spy" \in SessionsWithFlag THEN "read" ELSE "aborted")
                  ELSE "scheduled"
    /\ accesses' = FlagRead
    /\ conn_step' = ConnStep("dashboard", "main", "")
    /\ UNCHANGED <<is_connected, thread_state, live_threads, run_pc, conn, exc, spy_historical_data,
                   spy_requests, spy_ended, stop_pc, session_keys, acked, gw_acked>>
    /\ UNCHANGED <<cache_vars, app_vars, pf_vars>>

Outcomes == {"ack", "return", "raise"}

ConnNext ==
    \/ \E s \in Sessions : start_thread(s)
    \/ \E s \in Sessions, o \in Outcomes : run_app_connect(s, o)
    \/ \E s \in Sessions : connection_lost(s)
    \/ \E s \in Sessions, closed \in BOOLEAN : run_app_raise(s, closed)
    \/ \E s \in Sessions : run_app_return(s)
    \/ \E s \in Sessions : stop_thread_disconnect(s)
    \/ \E s \in Sessions : stop_thread_check(s)
    \/ \E s \in Sessions : stop_thread_join(s)
    \/ nextValidId
    \/ historicalDataEnd
    \/ dashboard_app
    \/ dashboard_wait_app
    \/ dashboard_spy
    \/ dashboard_wait_spy
    \/ dashboard_check

\* The market-index session alone, with the bars of its request.
SpyNext ==
    \/ start_thread("spy")
    \/ \E o \in Outcomes : run_app_connect("spy", o)
    \/ connection_lost("spy")
    \/ \E closed \in BOOLEAN : run_app_raise("spy", closed)
    \/ run_app_return("spy")
    \/ stop_thread_disconnect("spy")
    \/ stop_thread_check("spy")
    \/ stop_thread_join("spy")
    \/ nextValidId
    \/ \E b \in Bars : spy_historicalData(b)
    \/ historicalDataEnd

\* ======================================================== Portfolio Model
\* portfolio.py.  The Portfolio object is the pair of its two dictionaries;
\* its methods are operators from an object to the object they leave.
NumWeights == 2
NumHist == 2
NumChoices == 2

STRATEGY_OPTIONS == <<"Run-up", "Hedge", "Hold", "Medium", "Long">>
StrategyOptions == {STRATEGY_OPTIONS[i] : i \in 1..Len(STRATEGY_OPTIONS)}
\* The entries of the strategy drop-downs the user is seen to pick.
StrategyChoices == {STRATEGY_OPTIONS[i] : i \in 1..NumChoices}

Remove(d, k) == [x \in (DOMAIN d) \ {k} |-> d[x]]
DictsOver(K, V) == UNION {[S -> V] : S \in SUBSET K}

\* get_live_portfolio's result: ticker -> weight; and the session's
\* historical map: ticker -> series, every series holding a bar.  The
\* dashboard reconciles only when both are non-empty (dashboard.py line 55).
Weights == 0..NumWeights
HistSeries == {[d \in {DateNames[1]} |-> 99 + i] : i \in 1..NumHist}
HoldingsSnapshots == {h \in DictsOver(Tickers, Weights) : Truthy(h)}
HistSnapshots == {h \in DictsOver(Tickers, HistSeries) : Truthy(h)}

PfRet(op, outcome, old, staged, holdings, hist, submitted, surfaced) ==
    [op |-> op, outcome |-> outcome, old |-> old, staged |-> staged,
     holdings |-> holdings, hist |-> hist, submitted |-> submitted,
     surfaced |-> surfaced]

PfInit ==
    /\ pf_portfolio = EmptyDict
    /\ pf_historical_data = EmptyDict
    /\ last_refresh_time = "None"
    /\ supplied = {}
    /\ pf_ret = PfRet("init", "return", {}, {}, EmptyDict, EmptyDict, FALSE, {})
    /\ pf_alias = {}
    /\ last_saved_time = None
    /\ pf_cache_file = NoFile
    /\ saved_portfolio = None

add_stock_nostrategy(obj, ticker, weight, strategy) ==
    [obj EXCEPT !.portfolio =
        Put(obj.portfolio, ticker, [weight |-> weight, strategy |-> ""])]

add_stock(obj, ticker, weight, strategy) ==
    [obj EXCEPT !.portfolio =
        Put(obj.portfolio, ticker, [weight |-> weight, strategy |-> strategy])]

\* update_stock without the membership test: an absent ticker gets an entry.
update_stock_upsert(obj, ticker, weight, strategy) ==
    LET cur == IF ticker \in DOMAIN obj.portfolio THEN obj.portfolio[ticker]
               ELSE [weight |-> 0, strategy |-> ""]
    IN  [obj EXCEPT !.portfolio =
            Put(obj.portfolio, ticker,
                [weight |-> IF weight.none THEN cur.weight ELSE weight.val,
                 strategy |-> IF strategy.none THEN cur.strategy ELSE strategy.val])]

\* weight and strategy are None or Some(value).
update_stock(obj, ticker, weight, strategy) ==
    IF ticker \in DOMAIN obj.portfolio
    THEN [obj EXCEPT !.portfolio[ticker] =
            [weight |-> IF weight.none THEN @.weight ELSE weight.val,
             strategy |-> IF strategy.none THEN @.strategy ELSE strategy.val]]
    ELSE obj

remove_stock(obj, ticker) ==
    [portfolio |-> IF ticker \in DOMAIN obj.portfolio
                   THEN Remove(obj.portfolio, ticker) ELSE obj.portfolio,
     historical_data |-> IF ticker \in DOMAIN obj.historical_data
                         THEN Remove(obj.historical_data, ticker)
                         ELSE obj.historical_data]

portfolio_set_historical_data(obj, ticker, data) ==
    [obj EXCEPT !.historical_data = Put(obj.historical_data, ticker, data)]

\* The loops of update_portfolio over a set of tickers.  The iterations
\* touch different keys, so the order of a complete loop does not matter.
RECURSIVE remove_each(_, _)
remove_each(obj, tickers) ==
    IF tickers = {} THEN obj
    ELSE LET t == CHOOSE x \in tickers : TRUE
         IN  remove_each(remove_stock(obj, t), tickers \ {t})

RECURSIVE add_each(_, _, _)
add_each(obj, selected_strategies, holdings) ==
    IF DOMAIN selected_strategies = {} THEN obj
    ELSE LET t == CHOOSE x \in DOMAIN selected_strategies : TRUE
         IN  add_each(add_stock(obj, t, holdings[t], selected_strategies[t]),
                      Remove(selected_strategies, t), holdings)

RECURSIVE stage_each(_, _, _)
stage_each(obj, tickers, hist) ==
    IF tickers = {} THEN obj
    ELSE LET t == CHOOSE x \in tickers : TRUE
         IN  stage_each(portfolio_set_historical_data(obj, t, hist[t]),
                        tickers \ {t}, hist)

RECURSIVE update_each(_, _, _, _)
update_each(obj, tickers, holdings, hist) ==
    IF tickers = {} THEN obj
    ELSE LET t == CHOOSE x \in tickers : TRUE
             o == update_stock(obj, t, Some(holdings[t]), None)
         IN  update_each(portfolio_set_historical_data(o, t, hist[t]),
                         tickers \ {t}, holdings, hist)

\* The objects update_portfolio can leave and how it ends.  hist[ticker]
\* raises KeyError for a ticker the historical map lacks; the loop it is in
\* has then handled some of the other tickers of its set (a Python set
\* iterates in no particular order) and the rest of the function is skipped.
update_portfolio_runs(obj, holdings, hist, submit_button, selected_strategies) ==
    LET old_tickers == DOMAIN obj.portfolio
        new_tickers == {t \in DOMAIN holdings : holdings[t] # 0}
        removed_tickers == old_tickers \ new_tickers
        obj1 == remove_each(obj, removed_tickers)
        added_tickers == new_tickers \ old_tickers
        obj2 == IF added_tickers # {} /\ submit_button
                THEN add_each(obj1, selected_strategies, holdings)
                ELSE obj1
        existing == new_tickers \cap old_tickers
    IN  IF added_tickers \ DOMAIN hist # {}
        THEN {[obj |-> stage_each(obj2, done, hist), outcome |-> "KeyError"] :
                 done \in SUBSET (added_tickers \cap DOMAIN hist)}
        ELSE LET obj3 == stage_each(obj2, added_tickers, hist)
             IN  IF existing \ DOMAIN hist # {}
                 THEN {[obj |-> update_stock(update_each(obj3, done, holdings, hist),
                                             bad, Some(holdings[bad]), None),
                        outcome |-> "KeyError"] :
                          done \in SUBSET (existing \cap DOMAIN hist),
                          bad \in existing \ DOMAIN hist}
                 ELSE {[obj |-> update_each(obj3, existing, holdings, hist),
                        outcome |-> "return"]}

\* One reconciliation tick.  The form lists the added tickers, each with a
\* drop-down that shows the first option until the user picks another;
\* submit_button is true on the run the user's click on Submit triggers.
update_portfolio(holdings, hist, submit_button, selected_strategies) ==
    LET obj == [portfolio |-> pf_portfolio, historical_data |-> pf_historical_data]
        old_tickers == DOMAIN pf_portfolio
        new_tickers == {t \in DOMAIN holdings : holdings[t] # 0}
        removed_tickers == old_tickers \ new_tickers
        added_tickers == new_tickers \ old_tickers
    IN  /\ DOMAIN selected_strategies = added_tickers
        /\ submit_button => added_tickers # {}
        /\ ~submit_button =>
               selected_strategies = [t \in added_tickers |-> STRATEGY_OPTIONS[1]]
        /\ \E run \in update_portfolio_runs(obj, holdings, hist, submit_button,
                                            selected_strategies) :
               /\ pf_portfolio' = run.obj.portfolio
               /\ pf_historical_data' = run.obj.historical_data
               /\ pf_ret' = PfRet("update_portfolio", run.outcome, old_tickers,
                                  (DOMAIN pf_historical_data) \ old_tickers,
                                  holdings, hist, submit_button, added_tickers)
        /\ last_refresh_time' = "now"
        /\ supplied' = IF submit_button
                       THEN (supplied \ removed_tickers) \cup added_tickers
                       ELSE supplied \ removed_tickers
        /\ UNCHANGED <<pf_alias, last_saved_time, pf_cache_file, saved_portfolio>>
        /\ UNCHANGED <<cache_vars, app_vars, conn_vars>>

\* The sidebar: selected_ticker is "" when the portfolio is empty (nothing
\* to select); new_strategy starts at the ticker's current strategy; the
\* strategy is stored when the button is clicked.
manage_portfolio(selected_ticker, new_strategy, clicked) ==
    LET obj == [portfolio |-> pf_portfolio, historical_data |-> pf_historical_data]
        changed == selected_ticker # "" /\ clicked
    IN  /\ (selected_ticker = "") = (DOMAIN pf_portfolio = {})
        /\ selected_ticker # "" => selected_ticker \in DOMAIN pf_portfolio
        /\ (selected_ticker # "" /\ ~clicked) =>
               new_strategy = pf_portfolio[selected_ticker].strategy
        /\ selected_ticker = "" => (~clicked /\ new_strategy = STRATEGY_OPTIONS[1])
        /\ pf_portfolio' =
               IF changed
               THEN update_stock(obj, selected_ticker, None, Some(new_strategy)).portfolio
               ELSE pf_portfolio
        /\ supplied' = IF changed THEN supplied \cup {selected_ticker} ELSE supplied
        /\ pf_ret' = PfRet("manage_portfolio", "return", DOMAIN pf_portfolio, {},
                           EmptyDict, EmptyDict, changed, {})
        /\ UNCHANGED <<pf_historical_data, last_refresh_time>>
        /\ UNCHANGED <<pf_alias, last_saved_time, pf_cache_file, saved_portfolio>>
        /\ UNCHANGED <<cache_vars, app_vars, conn_vars>>

\* Calls of the Portfolio's methods on the session's portfolio object.
Portfolio_update_stock(ticker, weight, strategy) ==
    LET obj == [portfolio |-> pf_portfolio, historical_data |-> pf_historical_data]
        new == update_stock(obj, ticker, weight, strategy)
    IN  /\ pf_portfolio' = new.portfolio
        /\ pf_historical_data' = new.historical_data
        /\ supplied' = IF ticker \in DOMAIN pf_portfolio /\ ~strategy.none
                       THEN supplied \cup {ticker} ELSE supplied
        /\ pf_ret' = PfRet("update_stock", "return", DOMAIN pf_portfolio, {},
                           EmptyDict, EmptyDict, FALSE, {ticker})
        /\ UNCHANGED <<last_refresh_time, pf_alias, last_saved_time, pf_cache_file, saved_portfolio>>
        /\ UNCHANGED <<cache_vars, app_vars, conn_vars>>

Portfolio_remove_stock(ticker) ==
    LET obj == [portfolio |-> pf_portfolio, historical_data |-> pf_historical_data]
        new == remove_stock(obj, ticker)
    IN  /\ pf_portfolio' = new.portfolio
        /\ pf_historical_data' = new.historical_data
        /\ supplied' = supplied \ {ticker}
        /\ pf_alias' = pf_alias \ {ticker}
        /\ pf_ret' = PfRet("remove_stock", "return", DOMAIN pf_portfolio, {},
                           EmptyDict, EmptyDict, FALSE, {ticker})
        /\ UNCHANGED <<last_refresh_time, last_saved_time, pf_cache_file, saved_portfolio>>
        /\ UNCHANGED <<cache_vars, app_vars, conn_vars>>

PfNext ==
    \/ \E h \in HoldingsSnapshots, hd \in HistSnapshots, sb \in BOOLEAN :
           \E ss \in [{t \in DOMAIN h : h[t] # 0} \ DOMAIN pf_portfolio -> StrategyChoices] :
               update_portfolio(h, hd, sb, ss)
    \/ \E t \in Tickers \cup {""}, s \in StrategyChoices, c \in BOOLEAN :
           manage_portfolio(t, s, c)

\* ---- the Portfolio's own cache file (portfolio.py, save_cache/load_cache)
\* Portfolio(): a fresh object replaces the session's portfolio.
Portfolio_init ==
    /\ pf_portfolio' = EmptyDict
    /\ pf_historical_data' = EmptyDict
    /\ last_refresh_time' = "None"
    /\ last_saved_time' = None
    /\ supplied' = {}
    /\ pf_alias' = {}
    /\ pf_ret' = PfRet("Portfolio", "return", {}, {}, EmptyDict, EmptyDict, FALSE, {})
    /\ UNCHANGED <<pf_cache_file, saved_portfolio>>
    /\ UNCHANGED <<cache_vars, app_vars, conn_vars>>

Portfolio_add_stock(ticker, weight, strategy) ==
    LET obj == [portfolio |-> pf_portfolio, historical_data |-> pf_historical_data]
    IN  /\ pf_portfolio' = add_stock(obj, ticker, weight, strategy).portfolio
        /\ supplied' = supplied \cup {ticker}
        /\ pf_ret' = PfRet("add_stock", "return", DOMAIN pf_portfolio, {},
                           EmptyDict, EmptyDict, FALSE, {ticker})
        /\ UNCHANGED <<pf_historical_data, last_refresh_time, pf_alias,
                       last_saved_time, pf_cache_file, saved_portfolio>>
        /\ UNCHANGED <<cache_vars, app_vars, conn_vars>>

\* save_cache builds cache_data first, and that evaluates
\* self.last_saved_time.strftime(...): AttributeError while last_saved_time
\* is None, before the file is opened.  Otherwise the file gets the
\* portfolio with the previous save time, and last_saved_time becomes now.
save_cache(now) ==
    /\ IF last_saved_time.none
       THEN /\ pf_ret' = PfRet("save_cache", "AttributeError", DOMAIN pf_portfolio,
                               {}, EmptyDict, EmptyDict, FALSE, {})
            /\ UNCHANGED <<pf_cache_file, last_saved_time>>
       ELSE /\ pf_cache_file' =
                   set_on_disk([portfolio |-> pf_portfolio,
                                last_saved_time |-> strftime(last_saved_time.val)])
            /\ last_saved_time' = Some(now)
            /\ pf_ret' = PfRet("save_cache", "return", DOMAIN pf_portfolio, {},
                               EmptyDict, EmptyDict, FALSE, {})
    /\ saved_portfolio' = Some(pf_portfolio)
    /\ UNCHANGED <<pf_portfolio, pf_historical_data, last_refresh_time, supplied,
                   pf_alias>>
    /\ UNCHANGED <<cache_vars, app_vars, conn_vars>>

\* load_cache: the portfolio and the save time of the file; the two handlers
\* show a warning (portfolio.py imports st) and the object stays as it was.
load_cache ==
    /\ IF pf_cache_file.exists /\ pf_cache_file.valid
       THEN /\ pf_portfolio' = json_load(pf_cache_file.text).portfolio
            /\ last_saved_time' =
                   Some(strptime(json_load(pf_cache_file.text).last_saved_time))
            /\ supplied' = DOMAIN json_load(pf_cache_file.text).portfolio
            /\ pf_ret' = PfRet("load_cache", "return", DOMAIN pf_portfolio, {},
                               EmptyDict, EmptyDict, FALSE, {})
       ELSE /\ pf_ret' = PfRet("load_cache", "warning", DOMAIN pf_portfolio, {},
                               EmptyDict, EmptyDict, FALSE, {})
            /\ UNCHANGED <<pf_portfolio, last_saved_time, supplied>>
    /\ UNCHANGED <<pf_historical_data, last_refresh_time, pf_alias, pf_cache_file,
                   saved_portfolio>>
    /\ UNCHANGED <<cache_vars, app_vars, conn_vars>>

\* The portfolios save_cache is called with here.
CachedPortfolios ==
    DictsOver(Tickers, {[weight |-> 1, strategy |-> st] : st \in StrategyChoices})

\* cache/strategy.json as something other than this object's save_cache
\* leaves it: an earlier deployment's file, or text json.load rejects.
StrategyFiles ==
    {InvalidFile} \cup
    {set_on_disk([portfolio |-> p, last_saved_time |-> strftime(t)]) :
        p \in CachedPortfolios, t \in Datetimes}

strategy_file_left(file) ==
    /\ pf_cache_file' = file
    /\ saved_portfolio' = None
    /\ pf_ret' = PfRet("file", "return", DOMAIN pf_portfolio, {}, EmptyDict,
                       EmptyDict, FALSE, {})
    /\ UNCHANGED <<pf_portfolio, pf_historical_data, last_refresh_time, supplied,
                   pf_alias, last_saved_time>>
    /\ UNCHANGED <<cache_vars, app_vars, conn_vars>>

PfCacheNext ==
    \/ Portfolio_init
    \/ \E t \in Tickers, st \in StrategyChoices : Portfolio_add_stock(t, 1, st)
    \/ \E now \in Datetimes : save_cache(now)
    \/ load_cache
    \/ \E f \in StrategyFiles : strategy_file_left(f)

\* Ticks and sidebar edits, with direct calls of the two methods.
PfCallNext ==
    \/ PfNext
    \/ \E t \in Tickers, w \in {None} \cup {Some(x) : x \in Weights},
          st \in {None} \cup {Some(x) : x \in StrategyChoices} :
           Portfolio_update_stock(t, w, st)
    \/ \E t \in Tickers : Portfolio_remove_stock(t)

\* ---- the Portfolio Model fed from the Broker Session (dashboard.py)
\* The series the Portfolio Model holds for a ticker: set_historical_data
\* stores the object it is given, and the tick gives it historical_data[ticker]
\* of the dict get_historical_data returned, which is the session's own
\* self.historical_data; such a series is read through the session's dict.
PortfolioSeries(t) ==
    IF t \in pf_alias THEN historical_data[t] ELSE pf_historical_data[t]

\* The tick's reads and its call of update_portfolio, with the lock free and
\* the SPY series present: get_live_portfolio() divides each market value by
\* the net liquidation, get_historical_data() returns self.historical_data.
dashboard_update_portfolio(submit_button, selected_strategies) ==
    LET live_holdings ==
            [t \in DOMAIN live_portfolio |->
                live_portfolio[t].market_value \div net_liquidation]
        obj == [portfolio |-> pf_portfolio, historical_data |-> pf_historical_data]
        old_tickers == DOMAIN pf_portfolio
        new_tickers == {t \in DOMAIN live_holdings : live_holdings[t] # 0}
        removed_tickers == old_tickers \ new_tickers
        added_tickers == new_tickers \ old_tickers
    IN  /\ main_pc = "idle"
        /\ cb_pc = "idle"
        /\ can_lock("main")
        /\ Truthy(live_portfolio)
        /\ net_liquidation # 0
        /\ Truthy(historical_data)
        /\ DOMAIN selected_strategies = added_tickers
        /\ submit_button => added_tickers # {}
        /\ ~submit_button =>
               selected_strategies = [t \in added_tickers |-> STRATEGY_OPTIONS[1]]
        /\ \E run \in update_portfolio_runs(obj, live_holdings, historical_data,
                                            submit_button, selected_strategies) :
               /\ pf_portfolio' = run.obj.portfolio
               /\ pf_historical_data' = run.obj.historical_data
               /\ pf_alias' = DOMAIN run.obj.historical_data
               /\ pf_ret' = PfRet("update_portfolio", run.outcome, old_tickers,
                                  (DOMAIN pf_historical_data) \ old_tickers,
                                  live_holdings, historical_data, submit_button,
                                  added_tickers)
        /\ last_refresh_time' = "now"
        /\ supplied' = IF submit_button
                       THEN (supplied \ removed_tickers) \cup added_tickers
                       ELSE supplied \ removed_tickers
        /\ app_ret' = AppRet("get_historical_data", "return", HistoricalDataRef)
        /\ UNCHANGED <<live_portfolio, net_liquidation, historical_data,
                       historical_data_requests, reqId_counter, lock_owner, cb_pc,
                       cb_contract, main_pc, glp_todo, glp_weights, glp_reads,
                       issued, bars_recorded, holdings_arrived>>
        /\ UNCHANGED <<last_saved_time, pf_cache_file, saved_portfolio>>
        /\ UNCHANGED <<cache_vars, conn_vars>>

\* The broker's callbacks for stock positions, with ticks between them.
FeedNext ==
    \/ \E c \in {x \in Contracts : x.secType = "STK"}, mv \in MarketValues :
           updatePortfolio(c, mv)
    \/ request_historical_data
    \/ updateAccountValue("NetLiquidation", "2")
    \/ \E r \in ReqIds, b \in {x \in Bars : x.close = 100} : historicalData(r, b)
    \/ \E sb \in BOOLEAN :
           \E ss \in [{t \in DOMAIN live_portfolio :
                          live_portfolio[t].market_value # 0} \ DOMAIN pf_portfolio
                      -> StrategyChoices] :
               dashboard_update_portfolio(sb, ss)

\* Sets, gets and restarts of the portfolio-history domain, with the record
\* of the value most recently set for each key.
SetGetNext ==
    \/ \E t \in Tickers, d \in SeriesValues :
           set_historical_data(t, d) /\ last_set' = Put(last_set, t, d)
    \/ \E t \in Tickers : get_historical_data(t)
    \/ Restart

CacheNext ==
    \/ \E t \in CacheKeys, d \in SeriesValues :
           set_historical_data(t, d) /\ UNCHANGED last_set
    \/ \E t \in CacheKeys : get_historical_data(t)
    \/ \E d \in SeriesValues : set_spy_data(d)
    \/ get_spy_data
    \/ \E p \in StrategyPortfolios, now \in Datetimes : set_strategy(p, now)
    \/ load_strategy_cache
    \/ clear_cache
    \/ Restart
    \/ \E f \in CacheFiles : CorruptFile(f)

Init == CacheInit /\ AppInit /\ ConnInit /\ PfInit

SetGetSpec == Init /\ [][SetGetNext]_vars

CacheSpec == Init /\ [][CacheNext]_vars

SessionSpec == Init /\ [][AppNext]_vars

ConnSpec == Init /\ [][ConnNext]_vars

\* run() looks at the connection again at least every 0.2 s (the timeout of
\* its queue read), so a thread whose connection stays down does return.
SpyFairSpec ==
    Init /\ [][SpyNext]_vars /\ WF_vars(run_app_return("spy"))

PortfolioSpec == Init /\ [][PfNext]_vars

PortfolioCallSpec == Init /\ [][PfCallNext]_vars

PortfolioCacheSpec == Init /\ [][PfCacheNext]_vars

FeedSpec == Init /\ [][FeedNext]_vars

\* ================================================================ claims
NotFound == [outcome |-> "return", value |-> None]

\* C1: after any sequence of set_historical_data calls and restarts,
\* get_historical_data(k) returns the value most recently set for k, for
\* every key k that was ever set.
C1_GetReturnsLastSet ==
    (cache_ret.op = "get_historical_data" /\ cache_ret.key \in DOMAIN last_set)
        => /\ cache_ret.outcome = "return"
           /\ cache_ret.value = Some(last_set[cache_ret.key])

\* C2: from any cache state clear_cache completes, and afterwards get
\* returns not-found for every key of the portfolio-history domain and the
\* backing file does not exist.
C2_ClearThenNotFound ==
    cache_ret.op = "clear_cache"
        => /\ cache_ret.outcome = "return"
           /\ ~portfolio_cache_file.exists
           /\ \A k \in CacheKeys : get_historical_data_result(k) = NotFound

\* C3: with invalid JSON in the backing file and the value not in memory,
\* get_historical_data, get_spy_data and load_strategy_cache return
\* not-found and raise nothing.
C3_InvalidJsonIsNotFound ==
    /\ ( /\ cache_ret.op = "get_historical_data"
         /\ portfolio_cache_file = InvalidFile
         /\ cache_ret.key \notin DOMAIN portfolio_historical_cache )
           => (cache_ret.outcome = "return" /\ cache_ret.value = None)
    /\ ( /\ cache_ret.op = "get_spy_data"
         /\ spy_cache_file = InvalidFile
         /\ ~Truthy(spy_historical_cache) )
           => (cache_ret.outcome = "return" /\ cache_ret.value = None)
    /\ ( /\ cache_ret.op = "load_strategy_cache"
         /\ strategy_cache_file = InvalidFile )
           => (cache_ret.outcome = "return" /\ cache_ret.value = None)

\* C4: after every completed set on a cache domain the backing file of
\* the domain holds the domain's in-memory mapping.
C4_FileEqualsMemoryAfterSet ==
    /\ cache_ret.op = "set_historical_data"
           => portfolio_cache_file = set_on_disk(portfolio_historical_cache)
    /\ cache_ret.op = "set_spy_data"
           => spy_cache_file = set_on_disk(spy_historical_cache)
    /\ cache_ret.op = "set_strategy"
           => /\ strategy_cache_file.exists /\ strategy_cache_file.valid
              /\ json_load(strategy_cache_file.text).portfolio = strategy_cache

\* C5: a key present in the in-memory mapping is answered with the
\* in-memory value, whatever the file holds and also when the value is
\* empty; a key in neither memory nor an existing file is answered with
\* not-found, without an error.
C5_MemoryValueWins ==
    cache_ret.op = "get_historical_data"
        => /\ cache_ret.key \in DOMAIN portfolio_historical_cache
                 => /\ cache_ret.outcome = "return"
                    /\ cache_ret.value =
                           Some(portfolio_historical_cache[cache_ret.key])
           /\ ( /\ cache_ret.key \notin DOMAIN portfolio_historical_cache
                /\ \/ ~portfolio_cache_file.exists
                   \/ /\ portfolio_cache_file.valid
                      /\ cache_ret.key \notin
                             DOMAIN json_load(portfolio_cache_file.text) )
                 => (cache_ret.outcome = "return" /\ cache_ret.value = None)

\* C6: with at least one holding recorded and net liquidation still zero,
\* get_live_portfolio fails with the same no-data condition (ValueError)
\* that it raises when no holdings have arrived.
C6_ZeroNetLiquidationIsNoData ==
    ( /\ app_ret.op = "get_live_portfolio"
      /\ app_ret.outcome # "running"
      /\ Truthy(live_portfolio)
      /\ net_liquidation = 0 )
        => app_ret.outcome = "ValueError"

\* C7: get_historical_data of the main session raises the no-data
\* condition exactly when no bar has ever been recorded, and
\* get_live_portfolio raises it whenever no holdings update has arrived;
\* what either returns is never an empty mapping.
C7_NoDataExactlyWhenNothingRecorded ==
    /\ app_ret.op = "get_historical_data"
           => /\ (app_ret.outcome = "ValueError") <=> ~bars_recorded
              /\ app_ret.outcome = "return"
                     => (app_ret.value = HistoricalDataRef /\ Truthy(historical_data))
    /\ (app_ret.op = "get_live_portfolio" /\ app_ret.outcome # "running")
           => /\ ~holdings_arrived => app_ret.outcome = "ValueError"
              /\ app_ret.outcome = "return" => Truthy(app_ret.value.val)

\* The no-data failure is observed after holdings were pushed and requests
\* were issued, but before any bar was stored.
C7_Witness ==
    /\ app_ret.op = "get_historical_data"
    /\ app_ret.outcome = "ValueError"
    /\ holdings_arrived
    /\ reqId_counter > 0

\* C8: the calls of request_historical_data obtain strictly increasing ids
\* (so two consecutive calls for one ticker get distinct ids, the second the
\* greater), a bar delivered under a known id is stored in the series of the
\* ticker the id maps to, and it leaves every entry of every other date, and
\* of every other ticker, in place and unchanged.
C8_IdsIncreaseAndBarsAccumulate ==
    /\ [](\A i, j \in 1..Len(issued) :
             i < j => /\ issued[i] < issued[j]
                      /\ issued[i] \in DOMAIN historical_data_requests
                      /\ issued[j] \in DOMAIN historical_data_requests)
    /\ [][\A r \in DOMAIN historical_data_requests, b \in Bars :
            (app_ret'.op = "historicalData" /\ historicalData(r, b))
                => LET sym == historical_data_requests[r] IN
                   /\ sym \in DOMAIN historical_data'
                   /\ b.date \in DOMAIN historical_data'[sym]
                   /\ historical_data'[sym][b.date] = b.close
                   /\ \A t \in DOMAIN historical_data :
                        /\ t \in DOMAIN historical_data'
                        /\ \A d \in DOMAIN historical_data[t] :
                             /\ d \in DOMAIN historical_data'[t]
                             /\ <<t, d>> # <<sym, b.date>>
                                    => historical_data'[t][d] = historical_data[t][d]
         ]_vars

\* Two ids were issued for one ticker and its series holds two dates.
C8_Witness ==
    /\ app_ret.op = "historicalData"
    /\ \E i, j \in DOMAIN historical_data_requests :
          /\ i < j
          /\ historical_data_requests[i] = historical_data_requests[j]
          /\ historical_data_requests[i] \in DOMAIN historical_data
          /\ Cardinality(DOMAIN historical_data[historical_data_requests[i]]) >= 2

\* C9: the request-id counter never decreases, every call obtains an id
\* that no earlier call obtained, and an entry of the request-id table,
\* once written, is never changed or removed.
C9_IdsUniqueAndTableStable ==
    /\ [](\A i, j \in 1..Len(issued) : i # j => issued[i] # issued[j])
    /\ [][/\ reqId_counter' >= reqId_counter
          /\ \A id \in DOMAIN historical_data_requests :
                /\ id \in DOMAIN historical_data_requests'
                /\ historical_data_requests'[id] = historical_data_requests[id]
         ]_vars

\* Calls were made for two different tickers, interleaved with bar
\* callbacks and a read by the orchestration thread.
C9_Witness ==
    /\ Len(issued) >= 2
    /\ \E i, j \in DOMAIN historical_data_requests :
          historical_data_requests[i] # historical_data_requests[j]
    /\ bars_recorded
    /\ main_pc # "idle"

\* C10: the weights of one snapshot returned by get_live_portfolio are all
\* computed from one (holdings map, net liquidation) pair: every item of
\* the comprehension reads the same pair, and the result is that pair's
\* market values divided by its net liquidation.
C10_SnapshotFromOnePair ==
    /\ Cardinality(glp_reads) <= 1
    /\ (app_ret.op = "get_live_portfolio" /\ app_ret.outcome = "return")
           => \E pair \in glp_reads :
                 app_ret.value.val =
                     [t \in DOMAIN pair[1] |->
                          pair[1][t].market_value \div pair[2]]

\* A snapshot of two holdings was returned while the callback thread was
\* in the middle of a holdings push.
C10_Witness ==
    /\ app_ret.op = "get_live_portfolio"
    /\ app_ret.outcome = "return"
    /\ Cardinality(DOMAIN app_ret.value.val) >= 2
    /\ cb_pc = "request"

\* C11: every read and write of a session's shared mutable state (holdings
\* map, historical map, connection flag, request-id counter), by a callback
\* or by the orchestration thread, happens while holding the session's lock.
C11_SharedStateUnderLock == \A a \in accesses : a.locked

\* C12: the main session's connected flag is false initially, becomes true
\* only through connectAck and false again only through connectionClosed; it
\* is true only if the connection was acknowledged and not closed since.
C12_FlagFollowsCallbacks ==
    /\ [](is_connected => acked)
    /\ [][(is_connected' # is_connected) =>
             /\ conn_step'.s = "main"
             /\ conn_step'.cb = IF is_connected' THEN "connectAck"
                                ELSE "connectionClosed"]_vars

\* The flag was true and connectionClosed has put it back to false.
C12_Witness ==
    /\ conn_step.s = "main"
    /\ conn_step.cb = "connectionClosed"
    /\ ~is_connected
    /\ thread_state["main"] = "alive"

\* C13: an exception raised during connect or run on a background thread is
\* caught in run_app, the thread ends, and the session's connected flag is
\* false afterwards, wherever the exception occurred.
C13_FlagFalseAfterCaughtException ==
    \A s \in Sessions :
        (exc[s] /\ thread_state[s] = "dead") =>
            (s \in SessionsWithFlag /\ ~is_connected)

\* C14: a run of the script in which the connected session has no holdings
\* or no bars yet does not abort; it reaches the scheduling of the refresh.
C14_NoDataTickReachesRefresh ==
    (is_connected /\ (~Truthy(live_portfolio) \/ ~Truthy(historical_data)))
        => dash_pc # "aborted"

\* C15: when the gateway has acknowledged the connections of both sessions,
\* both wait loops end and the run goes on to read the data.
C15_BothAcknowledgedTickReads ==
    (gw_acked["main"] /\ gw_acked["spy"]) => dash_pc # "aborted"

\* C16: when stop_thread returns, the session's background thread has ended;
\* stop_thread never returns while the thread is running.
C16_StopThreadReturnsAfterThreadExit ==
    conn_step.op \in {"stop_thread_return", "stop_thread_joined"} =>
        thread_state[conn_step.s] # "alive"

\* stop_thread found the thread alive, waited in join and returned.
C16_Witness ==
    /\ conn_step.op = "stop_thread_joined"
    /\ thread_state[conn_step.s] = "dead"

\* C17: the market-index session issues one historical request, stores every
\* bar delivered, disconnects itself on historicalDataEnd; after that its
\* series does not change and its background thread eventually ends.
C17_SpyRequestsRecordsDisconnects ==
    /\ [](spy_requests <= 1)
    /\ [](spy_ended => ~conn["spy"])
    /\ [][\A b \in Bars :
            (conn_step'.cb = "historicalData" /\ spy_historicalData(b)) =>
                /\ b.date \in DOMAIN spy_historical_data'
                /\ spy_historical_data'[b.date] = b.close
                /\ \A d \in DOMAIN spy_historical_data \ {b.date} :
                       /\ d \in DOMAIN spy_historical_data'
                       /\ spy_historical_data'[d] = spy_historical_data[d]]_vars
    /\ [][spy_ended => spy_historical_data' = spy_historical_data]_vars
    /\ spy_ended ~> (thread_state["spy"] # "alive")

\* Bars were stored, the terminal callback fired and the thread ended by
\* returning from run().
C17_Witness ==
    /\ spy_ended
    /\ Cardinality(DOMAIN spy_historical_data) = NumDates
    /\ thread_state["spy"] = "dead"
    /\ ~exc["spy"]

\* The tickers of non-zero weight in the snapshot of the last tick.
NewTickers == {t \in DOMAIN pf_ret.holdings : pf_ret.holdings[t] # 0}

\* C18: after one reconciliation tick with committed tickers O, observed
\* non-zero-weight tickers N and no strategy submitted: every ticker of O \ N
\* is gone from the portfolio together with its history; every ticker of
\* O \cap N has the snapshot's weight and series; every ticker of N \ O is
\* staged (its series stored) and absent from the committed portfolio.
C18_TickWithoutSubmission ==
    (pf_ret.op = "update_portfolio" /\ ~pf_ret.submitted) =>
        /\ \A t \in pf_ret.old \ NewTickers :
               /\ t \notin DOMAIN pf_portfolio
               /\ t \notin DOMAIN pf_historical_data
        /\ \A t \in pf_ret.old \cap NewTickers :
               /\ t \in DOMAIN pf_portfolio
               /\ pf_portfolio[t].weight = pf_ret.holdings[t]
               /\ t \in DOMAIN pf_historical_data
               /\ t \in DOMAIN pf_ret.hist
               /\ pf_historical_data[t] = pf_ret.hist[t]
        /\ \A t \in NewTickers \ pf_ret.old :
               /\ t \notin DOMAIN pf_portfolio
               /\ t \in DOMAIN pf_historical_data
               /\ t \in DOMAIN pf_ret.hist
               /\ pf_historical_data[t] = pf_ret.hist[t]

\* C19: a ticker is in the committed portfolio only if a strategy out of
\* STRATEGY_OPTIONS has been supplied for it, and every tick surfaces for
\* classification exactly the observed tickers that are not committed yet.
C19_CommittedOnlyWithStrategy ==
    /\ \A t \in DOMAIN pf_portfolio :
           /\ t \in supplied
           /\ pf_portfolio[t].strategy \in StrategyOptions
    /\ pf_ret.op = "update_portfolio" =>
           pf_ret.surfaced = NewTickers \ pf_ret.old

\* A ticker staged by an earlier tick is surfaced again by this one, next to
\* a ticker a strategy was submitted for.
C19_Witness ==
    /\ pf_ret.op = "update_portfolio"
    /\ ~pf_ret.submitted
    /\ pf_ret.surfaced \cap pf_ret.staged # {}
    /\ DOMAIN pf_portfolio # {}

\* C20: after every reconciliation tick no ticker whose observed weight is
\* zero, or that the snapshot lacks, has a holding or a historical series in
\* the Portfolio Model - a ticker staged earlier and never classified included.
C20_NoEntryForZeroOrAbsent ==
    pf_ret.op = "update_portfolio" =>
        \A t \in Tickers \ NewTickers :
            /\ t \notin DOMAIN pf_portfolio
            /\ t \notin DOMAIN pf_historical_data

\* C21: a holdings-update push for a stock-type contract sets the ticker's
\* recorded market value and currency to the pushed values, and the request
\* it goes on to issue allocates exactly one new request id, mapped to the
\* pushed ticker - also when a request for that ticker is outstanding.
C21_PushRecordsAndAllocatesOneId ==
    /\ [](app_ret.op = "updatePortfolio" =>
             /\ cb_pc = "request"
             /\ cb_contract.secType = "STK" =>
                    /\ cb_contract.symbol \in DOMAIN live_portfolio
                    /\ live_portfolio[cb_contract.symbol].currency = cb_contract.currency)
    /\ [][app_ret'.op = "updatePortfolio" =>
             \E mv \in MarketValues :
                 /\ updatePortfolio(cb_contract', mv)
                 /\ cb_contract'.secType = "STK" =>
                        live_portfolio'[cb_contract'.symbol].market_value = mv]_vars
    /\ [][app_ret'.op = "request_historical_data" =>
             /\ reqId_counter' \notin DOMAIN historical_data_requests
             /\ DOMAIN historical_data_requests' =
                    DOMAIN historical_data_requests \cup {reqId_counter'}
             /\ historical_data_requests'[reqId_counter'] = cb_contract.symbol
             /\ \A r \in DOMAIN historical_data_requests :
                    historical_data_requests'[r] = historical_data_requests[r]]_vars

\* Two pushes for one stock: the second push found a request outstanding
\* and a second id was allocated for the same ticker.
C21_Witness ==
    /\ app_ret.op = "request_historical_data"
    /\ Len(issued) = 2
    /\ historical_data_requests[issued[1]] = historical_data_requests[issued[2]]
    /\ historical_data_requests[issued[2]] \in DOMAIN live_portfolio

\* C22: a reconciliation tick run on snapshots in which a ticker has a
\* non-zero holding and no bars completes without an error, for a new ticker
\* and for a committed one.
C22_TickCompletes ==
    pf_ret.op = "update_portfolio" => pf_ret.outcome = "return"

\* C24: load_strategy_cache returns the not-found pair when the strategy file
\* does not exist, and after set_strategy(p) the mapping p with the time that
\* was written as YYYY-MM-DD HH:MM:SS.
C24_StrategyRoundTrip ==
    cache_ret.op = "load_strategy_cache" =>
        IF ~strategy_cache_file.exists
        THEN cache_ret.outcome = "return" /\ cache_ret.value = None
        ELSE strategy_cache_file.valid =>
                 /\ cache_ret.outcome = "return"
                 /\ ~cache_ret.value.none
                 /\ cache_ret.value.val.portfolio \in StrategyPortfolios
                 /\ cache_ret.value.val.last_cached_time \in
                        {strptime(strftime(now)) : now \in Datetimes}

\* C25: every ticker with an entry in the historical map has an entry in the
\* holdings map.
C25_BarsOnlyForHoldings ==
    DOMAIN historical_data \subseteq DOMAIN live_portfolio

\* C26: a bar delivered under a request id that is not in the request table
\* leaves the historical map, the holdings map and the table unchanged.
C26_UnknownIdBarChangesNothing ==
    [][\A r \in ReqIds \ DOMAIN historical_data_requests :
          (app_ret'.op = "historicalData" /\ (\E b \in Bars : historicalData(r, b))) =>
              UNCHANGED <<historical_data, live_portfolio,
                          historical_data_requests>>]_vars

\* A bar of an unknown request id arrived while a request for another id
\* was on record and no bar had been stored.
C26_Witness ==
    /\ app_ret.op = "historicalData"
    /\ ~bars_recorded
    /\ Truthy(historical_data_requests)

\* C23: the series the Portfolio Model holds for a ticker changes only
\* during a reconciliation tick; a bar that arrives between two ticks does
\* not change the series the Portfolio Model already holds.
C23_SeriesChangesOnlyInTick ==
    [][app_ret'.op = "historicalData"
          => \A t \in DOMAIN pf_historical_data :
                 PortfolioSeries(t)' = PortfolioSeries(t)]_vars

\* C27: after any sequence of start_thread and stop_thread calls on one
\* session, at most one background thread of that session is alive, and a
\* thread is started only when the session's thread is not alive.
C27_AtMostOneThreadAlive ==
    /\ [](\A s \in Sessions : live_threads[s] <= 1)
    /\ [][\A s \in Sessions :
             live_threads'[s] > live_threads[s] => thread_state[s] # "alive"]_vars

\* start_thread has just returned on a session whose thread was already
\* dispatching: no new thread stands at connect().
C27_Witness ==
    /\ conn_step.op = "start_thread"
    /\ run_pc[conn_step.s] = "run"
    /\ live_threads[conn_step.s] = 1

\* C28: a reconciliation tick never changes the strategy of a ticker that
\* stays in the committed portfolio, and update_stock or remove_stock on a
\* ticker that is not in the portfolio leaves the committed holdings unchanged.
C28_TickKeepsStrategyAbsentNoop ==
    /\ [][pf_ret'.op = "update_portfolio"
             => \A t \in DOMAIN pf_portfolio \cap DOMAIN pf_portfolio' :
                    pf_portfolio'[t].strategy = pf_portfolio[t].strategy]_vars
    /\ [][(/\ pf_ret'.op \in {"update_stock", "remove_stock"}
           /\ pf_ret'.surfaced \cap DOMAIN pf_portfolio = {})
             => pf_portfolio' = pf_portfolio]_vars

\* update_stock was called for a ticker outside a non-empty portfolio that a
\* tick had committed.
C28_Witness ==
    /\ pf_ret.op = "update_stock"
    /\ pf_ret.old # {}
    /\ pf_ret.surfaced \cap pf_ret.old = {}
    /\ last_refresh_time = "now"

\* C29: save_cache succeeds for any portfolio, also one that was never
\* saved or loaded, and load_cache on a fresh Portfolio afterwards restores
\* the ticker -> {weight, strategy} mapping save_cache was called with.
C29_SaveThenLoadRestores ==
    /\ [](pf_ret.op = "save_cache" => pf_ret.outcome = "return")
    /\ [][(/\ pf_ret.op = "Portfolio"
           /\ pf_ret'.op = "load_cache"
           /\ ~saved_portfolio.none)
             => pf_portfolio' = saved_portfolio.val]_vars

====
